---- MODULE Spec2Model ----
(***************************************************************************)
(* Reportes GPS: the report store (one SQLite table, reportes.db), the     *)
(* FastAPI service that inserts and reads reports (main.py) and the        *)
(* administrative command-line tool that patches the same store            *)
(* (edit_reportes.py).                                                     *)
(*                                                                         *)
(* Every handler and every CLI command is one action: the service's        *)
(* handlers are coroutines without an await, the CLI is a separate         *)
(* single-shot process, and SQLite serialises the statements.              *)
(*                                                                         *)
(* Values.  Python's None and SQL's NULL are the string None.  Floats are  *)
(* written as their literals ("10.0", "nan"): nothing is computed with     *)
(* them, and "nan" is the one float SQLite binds as NULL.                  *)
(***************************************************************************)
EXTENDS Integers, Sequences, FiniteSets, TLC

VARIABLES
    dbExists,   \* reportes.db exists (with its table)
    rows,       \* the table reportes, in rowid order
    seq,        \* sqlite_sequence.seq of reportes (AUTOINCREMENT)
    clock,      \* the wall clock, in seconds
    bakExists,  \* reportes.db.bak exists (a copy of the store; its content is not tracked)
    returned,   \* the ids returned by the 200 responses of POST /reportes/
    resp        \* what the last operation returned or printed

vars == <<dbExists, rows, seq, clock, bakExists, returned, resp>>

\* ------------------------------------------------------------------ bounds

MaxRows == 2
MaxClock == 1

\* ------------------------------------------------------------------ values

None == "None"
NaN == "nan"

\* datetime.now().isoformat(), and CURRENT_TIMESTAMP, at clock value c.
NowIso(c) == "now+" \o ToString(c)

\* The request bodies of POST /reportes/ as ReporteCreate holds them:
\* timestamp absent is None, tipo_reporte absent is "general", and an
\* explicit null is None.
ReporteCreate ==
    [latitud : {"10.0", NaN}, longitud : {"-74.0"},
     timestamp : {None, "", "t1"}, foto_base64 : {"Zm9v"},
     descripcion : {None}, tipo_reporte : {"general", None}]

\* The options of `update`, as argparse leaves them: None when not given.
UpdateArgs ==
    [lat : {None, "0.0", NaN}, lng : {None, "0.0"},
     tipo : {None, "alerta"}, desc : {None, "revisado"}]

\* The ids the CLI is run with: the first row's, and one no row ever has.
EditIds == {1, MaxRows + 1}

\* The image files of `set-photo`: a path with no file, or a file's bytes.
NoImage == "<no file>"
Images == {NoImage, "bar"}

\* base64.b64encode(b).decode('utf-8') of the image files above.
b64encode(b) == CASE b = "foo" -> "Zm9v" [] b = "bar" -> "YmFy" [] b = "" -> ""

\* ------------------------------------------------------------------- store

Ids(rs) == {rs[i].id : i \in 1..Len(rs)}

MaxRowid(rs) == IF rs = <<>> THEN 0 ELSE CHOOSE m \in Ids(rs) : \A k \in Ids(rs) : k <= m

\* id INTEGER PRIMARY KEY AUTOINCREMENT: one more than the largest rowid the
\* table has ever held, which sqlite_sequence remembers.
\* The same without the step past the largest rowid: a faulty variant the
\* claims are tested against.
NextRowidStuck(s, rs) == IF rs = <<>> THEN 1 ELSE MaxRowid(rs)
NextRowid(s, rs) == (IF s > MaxRowid(rs) THEN s ELSE MaxRowid(rs)) + 1

\* sqlite3 binds the float nan as NULL.
Bind(v) == IF v = NaN THEN None ELSE v

\* The NOT NULL columns of the schema.
NotNullOk(r) ==
    /\ Bind(r.latitud) # None
    /\ Bind(r.longitud) # None
    /\ r.timestamp # None
    /\ r.foto_base64 # None

\* The row INSERT INTO reportes (...) VALUES (?, ?, ?, ?, ?, ?) adds for the
\* request r: the six bound values, the assigned id, and created_at DEFAULT
\* CURRENT_TIMESTAMP.  tipo_reporte is bound explicitly, so its DEFAULT
\* 'general' never applies and a None is stored as NULL.
InsertedRow(r, id, now) ==
    [id |-> id, latitud |-> Bind(r.latitud), longitud |-> Bind(r.longitud),
     timestamp |-> r.timestamp, foto_base64 |-> r.foto_base64,
     descripcion |-> r.descripcion, tipo_reporte |-> r.tipo_reporte,
     created_at |-> now]

Perms(n) == {p \in [1..n -> 1..n] : \A i, j \in 1..n : p[i] = p[j] => i = j}

\* The results ORDER BY created_at DESC allows: SQL leaves the order of rows
\* with equal created_at (inserted within the same second) unspecified.
OrderByCreatedDesc(rs) ==
    {[i \in 1..Len(rs) |-> rs[p[i]]] :
        p \in {q \in Perms(Len(rs)) :
                 \A i, j \in 1..Len(rs) :
                    i < j => rs[q[i]].created_at >= rs[q[j]].created_at}}

\* ORDER BY id DESC LIMIT n.
ListLimit == 200
OrderByIdDesc(rs, n) ==
    LET all == [i \in 1..Len(rs) |-> rs[Len(rs) + 1 - i]]
    IN  IF Len(rs) <= n THEN all ELSE SubSeq(all, 1, n)

\* ----------------------------------------------------------------- service

\* class ReporteResponse: what pydantic accepts.  descripcion is the one
\* Optional field.
ReporteResponseOk(r) ==
    /\ r.latitud # None
    /\ r.longitud # None
    /\ r.timestamp # None
    /\ r.foto_base64 # None
    /\ r.tipo_reporte # None

ReporteResponse(r) ==
    [id |-> r.id, latitud |-> r.latitud, longitud |-> r.longitud,
     timestamp |-> r.timestamp, foto_base64 |-> r.foto_base64,
     descripcion |-> r.descripcion, tipo_reporte |-> r.tipo_reporte]

\* What an operation returned or printed.  code is the HTTP status of a
\* request and the exit code of a command; raised says an exception left the
\* operation; conn is the operation's store connection when it returned:
\* "none" (never opened), "closed" (close() was called) or "open".
Result(op, code, raised, out, id, body, total, ultimo, conn) ==
    [op |-> op, code |-> code, raised |-> raised, out |-> out, id |-> id,
     body |-> body, total |-> total, ultimo |-> ultimo, conn |-> conn]

NoResult == Result("none", 0, FALSE, "", 0, <<>>, 0, None, "none")

\* if not reporte.timestamp: reporte.timestamp = datetime.now().isoformat()
\* (StampOnlyNone is the faulty variant `if reporte.timestamp is None`.)
StampOnlyNone(ts, now) == IF ts = None THEN now ELSE ts
StampTimestamp(ts, now) == IF ts = None \/ ts = "" THEN now ELSE ts

\* POST /reportes/ with the body reporte, on the current state: the table,
\* sqlite_sequence, the ids returned so far and the response afterwards.
\* The row is inserted, committed and the connection closed before the
\* response model is built; whatever raises inside the try block becomes the
\* 500 response.
CrearOutcome(reporte) ==
    LET r   == [reporte EXCEPT
                  !.timestamp = StampTimestamp(reporte.timestamp, NowIso(clock))]
        id  == NextRowid(seq, rows)
        out == ReporteResponse(r @@ [id |-> id])
    IN  IF ~NotNullOk(r)
        THEN \* cursor.execute raises IntegrityError; conn.close() is not reached
             [rows |-> rows, seq |-> seq, returned |-> returned,
              resp |-> Result("crear_reporte", 500, FALSE,
                              "Error: NOT NULL constraint failed",
                              0, <<>>, 0, None, "open")]
        ELSE IF ReporteResponseOk(out)
        THEN [rows |-> Append(rows, InsertedRow(r, id, clock)), seq |-> id,
              returned |-> Append(returned, id),
              resp |-> Result("crear_reporte", 200, FALSE, "", id, <<out>>,
                              0, None, "closed")]
        ELSE \* ReporteResponse(...) raises ValidationError after the commit
             [rows |-> Append(rows, InsertedRow(r, id, clock)), seq |-> id,
              returned |-> returned,
              resp |-> Result("crear_reporte", 500, FALSE, "Error: validation error",
                              0, <<>>, 0, None, "closed")]

crear_reporte(reporte) ==
    \E o \in {CrearOutcome(reporte)} :
        /\ dbExists
        /\ Len(o.rows) <= MaxRows
        /\ rows' = o.rows
        /\ seq' = o.seq
        /\ returned' = o.returned
        /\ resp' = o.resp
        /\ UNCHANGED <<dbExists, clock, bakExists>>

\* GET /reportes/ on the table rs: one result for each order the query may
\* return.  A row ReporteResponse rejects raises inside the loop, before
\* conn.close().
ListResult(o) ==
    IF \A i \in 1..Len(o) : ReporteResponseOk(o[i])
    THEN Result("obtener_reportes", 200, FALSE, "", 0,
                [i \in 1..Len(o) |-> ReporteResponse(o[i])], 0, None, "closed")
    ELSE Result("obtener_reportes", 500, FALSE, "Error: validation error",
                0, <<>>, 0, None, "open")

ListOutcomes(rs) == {ListResult(o) : o \in OrderByCreatedDesc(rs)}

obtener_reportes ==
    /\ dbExists
    /\ \E l \in ListOutcomes(rows) : resp' = l
    /\ UNCHANGED <<dbExists, rows, seq, clock, bakExists, returned>>

\* GET /stats on the table rs: SELECT COUNT(*), and the timestamp of the
\* first row of ORDER BY created_at DESC LIMIT 1.
StatsResult(o) ==
    Result("estadisticas", 200, FALSE, "", 0, <<>>, Len(o),
           IF o = <<>> THEN None ELSE o[1].timestamp, "closed")

StatsOutcomes(rs) == {StatsResult(o) : o \in OrderByCreatedDesc(rs)}

estadisticas ==
    /\ dbExists
    /\ \E s \in StatsOutcomes(rows) : resp' = s
    /\ UNCHANGED <<dbExists, rows, seq, clock, bakExists, returned>>

\* The startup event: init_database creates the file and, IF NOT EXISTS, the
\* table.
init_database ==
    /\ dbExists' = TRUE
    /\ UNCHANGED <<rows, seq, clock, bakExists, returned, resp>>

\* A second passes.
Tick ==
    /\ clock < MaxClock
    /\ clock' = clock + 1
    /\ UNCHANGED <<dbExists, rows, seq, bakExists, returned, resp>>

\* -------------------------------------------------------------- admin tool

\* connect(): without the store file it prints this and calls sys.exit(1).
MissingStore(op) ==
    Result(op, 1, FALSE, "No se encuentra reportes.db", 0, <<>>, 0, None, "none")

\* cmd_list: id, timestamp, latitud, longitud, tipo_reporte of the newest
\* ListLimit rows.
ListLine(r) ==
    [id |-> r.id, timestamp |-> r.timestamp, latitud |-> r.latitud,
     longitud |-> r.longitud, tipo_reporte |-> r.tipo_reporte]

cmd_list ==
    /\ resp' = IF ~dbExists THEN MissingStore("list")
               ELSE LET o == OrderByIdDesc(rows, ListLimit)
                    IN  Result("list", 0, FALSE, "", 0,
                               [i \in 1..Len(o) |-> ListLine(o[i])], 0, None, "closed")
    /\ UNCHANGED <<dbExists, rows, seq, clock, bakExists, returned>>

\* cmd_show: every column PRAGMA table_info names, the photo as its length.
ShowLines(r) ==
    [r EXCEPT !.foto_base64 =
        IF @ = None THEN @ ELSE "<base64 len=" \o ToString(Len(@)) \o ">"]

cmd_show(id) ==
    /\ resp' = IF ~dbExists THEN MissingStore("show")
               ELSE IF id \notin Ids(rows)
                    THEN Result("show", 0, FALSE, "No encontrado", id, <<>>, 0, None, "closed")
                    ELSE LET r == CHOOSE x \in {rows[i] : i \in 1..Len(rows)} : x.id = id
                         IN  Result("show", 0, FALSE, "", id, <<ShowLines(r)>>,
                                    0, None, "closed")
    /\ UNCHANGED <<dbExists, rows, seq, clock, bakExists, returned>>

\* cmd_update's dict of updates: a column for every option that is not None.
Option(args, col) ==
    CASE col = "latitud" -> args.lat
      [] col = "longitud" -> args.lng
      [] col = "tipo_reporte" -> args.tipo
      [] col = "descripcion" -> args.desc

UpdateColumns == {"latitud", "longitud", "tipo_reporte", "descripcion"}

\* (UpdatesIfTruthy is the faulty variant that tests `if args.lat:`, which
\* drops 0.0 and the empty string.)
Falsy(v) == v = None \/ v = "" \/ v = "0.0"

UpdatesIfTruthy(args) ==
    [c \in {k \in UpdateColumns : ~Falsy(Option(args, k))} |-> Option(args, c)]

Updates(args) ==
    [c \in {k \in UpdateColumns : Option(args, k) # None} |-> Option(args, c)]

\* The row after SET col=? for every column of u.
SetColumns(r, u) ==
    [c \in DOMAIN r |-> IF c \in DOMAIN u THEN Bind(u[c]) ELSE r[c]]

\* UPDATE reportes SET ... WHERE id=?: the table afterwards, or ok = FALSE
\* (IntegrityError, nothing changed) when a matched row would hold a NULL in
\* a NOT NULL column.
\* (UpdateEveryRow is the faulty variant without the WHERE clause.)
UpdateEveryRow(rs, id, u) ==
    [ok |-> TRUE, rows |-> [i \in 1..Len(rs) |-> SetColumns(rs[i], u)]]

UpdateWhereId(rs, id, u) ==
    IF \A i \in 1..Len(rs) : rs[i].id = id => NotNullOk(SetColumns(rs[i], u))
    THEN [ok |-> TRUE,
          rows |-> [i \in 1..Len(rs) |->
                      IF rs[i].id = id THEN SetColumns(rs[i], u) ELSE rs[i]]]
    ELSE [ok |-> FALSE, rows |-> rs]

\* `update id ...` on the current state: the table and the result afterwards.
UpdateOutcome(id, args) ==
    LET u    == Updates(args)
        done == UpdateWhereId(rows, id, u)
    IN  IF ~dbExists
        THEN [rows |-> rows, resp |-> MissingStore("update")]
        ELSE IF DOMAIN u = {}
        THEN \* returns without db.close()
             [rows |-> rows,
              resp |-> Result("update", 0, FALSE, "Nada para actualizar.", id,
                              <<>>, 0, None, "open")]
        ELSE IF ~done.ok
        THEN \* cur.execute raises IntegrityError, which nothing catches
             [rows |-> rows,
              resp |-> Result("update", 1, TRUE, "IntegrityError", id,
                              <<>>, 0, None, "open")]
        ELSE [rows |-> done.rows,
              resp |-> Result("update", 0, FALSE, "Actualizado", id,
                              <<>>, 0, None, "closed")]

cmd_update(id, args) ==
    \E o \in {UpdateOutcome(id, args)} :
        /\ rows' = o.rows
        /\ resp' = o.resp
        /\ UNCHANGED <<dbExists, seq, clock, bakExists, returned>>

\* `set-photo id image` on the current state.  The image is read and encoded
\* before connect().
SetPhotoOutcome(id, image) ==
    LET u    == [c \in {"foto_base64"} |-> b64encode(image)]
        done == UpdateWhereId(rows, id, u)
    IN  IF image = NoImage
        THEN [rows |-> rows,
              resp |-> Result("set-photo", 0, FALSE, "Imagen no encontrada.", id,
                              <<>>, 0, None, "none")]
        ELSE IF ~dbExists
        THEN [rows |-> rows, resp |-> MissingStore("set-photo")]
        ELSE [rows |-> done.rows,
              resp |-> Result("set-photo", 0, FALSE, "Foto actualizada", id,
                              <<>>, 0, None, "closed")]

cmd_set_photo(id, image) ==
    \E o \in {SetPhotoOutcome(id, image)} :
        /\ rows' = o.rows
        /\ resp' = o.resp
        /\ UNCHANGED <<dbExists, seq, clock, bakExists, returned>>

\* cmd_backup: shutil.copy2 with no connect() before it; without the store
\* file it raises FileNotFoundError before the copy is created.
cmd_backup ==
    /\ IF ~dbExists
       THEN /\ resp' = Result("backup", 1, TRUE, "FileNotFoundError", 0,
                              <<>>, 0, None, "none")
            /\ UNCHANGED bakExists
       ELSE /\ bakExists' = TRUE
            /\ resp' = Result("backup", 0, FALSE, "Copiado", 0, <<>>, 0, None, "none")
    /\ UNCHANGED <<dbExists, rows, seq, clock, returned>>

\* ----------------------------------------------------------- specification

Init ==
    /\ dbExists = FALSE
    /\ rows = <<>>
    /\ seq = 0
    /\ clock = 0
    /\ bakExists = FALSE
    /\ returned = <<>>
    /\ resp = NoResult

\* Every operation, with the request bodies, option sets and image files
\* it is run with.
NextOf(posts, args, images) ==
    \/ init_database
    \/ Tick
    \/ \E reporte \in posts : crear_reporte(reporte)
    \/ obtener_reportes
    \/ estadisticas
    \/ cmd_list
    \/ \E id \in EditIds : cmd_show(id)
    \/ \E id \in EditIds, a \in args : cmd_update(id, a)
    \/ \E id \in EditIds, image \in images : cmd_set_photo(id, image)
    \/ cmd_backup

\* The service under every request body, beside an administrator who runs
\* every command but gives `update` no option or --tipo alone.
FewArgs == {a \in UpdateArgs : a.lat = None /\ a.lng = None /\ a.desc = None}
Next == NextOf(ReporteCreate, FewArgs, Images)
Spec == Init /\ [][Next]_vars

\* The administrator setting every column and replacing the photo, one
\* option a run, beside a service that receives the well-formed request
\* bodies with a timestamp.
OneOption ==
    {a \in UpdateArgs : Cardinality({c \in UpdateColumns : Option(a, c) # None}) <= 1}
AdminPosts ==
    {r \in ReporteCreate : r.latitud # NaN /\ r.timestamp = "t1" /\ r.tipo_reporte # None}
NextAdmin == NextOf(AdminPosts, OneOption, Images)
SpecAdmin == Init /\ [][NextAdmin]_vars

\* ------------------------------------------------------------------ claims

StrictlyIncreasing(s) == \A i, j \in 1..Len(s) : i < j => s[i] < s[j]

RowOf(rs, id) == CHOOSE x \in {rs[i] : i \in 1..Len(rs)} : x.id = id

\* C1: the ids the successful POST /reportes/ requests return, in the order
\* of the requests and whatever the administrator runs in between, are
\* strictly increasing, so none is returned twice.
C1_IdsStrictlyIncreasing == StrictlyIncreasing(returned)

\* Two ids were returned, and `update` has since changed the first row.
C1_Witness ==
    /\ Len(returned) = 2
    /\ rows[1].tipo_reporte = "alerta"
    /\ resp.op = "update"

\* C2: whenever GET /reportes/ answers with the reports, it returns every
\* row, and a row inserted later (a greater id) never comes after one
\* inserted earlier, also among rows with the same created_at.
C2_ListingNewestFirst ==
    [][(obtener_reportes /\ resp'.code = 200) =>
          /\ Len(resp'.body) = Len(rows)
          /\ \A i, j \in 1..Len(resp'.body) :
                i < j => resp'.body[i].id > resp'.body[j].id]_vars

\* C3: in every state of the store, total_reportes of GET /stats is the
\* number of records GET /reportes/ returns.
C3_TotalEqualsListingLength ==
    dbExists =>
        \A l \in ListOutcomes(rows), st \in StatsOutcomes(rows) :
            l.code = 200 /\ st.total = Len(l.body)

\* C4: ultimo_reporte of GET /stats is the timestamp column of the row with
\* the greatest id, and null when the table is empty.
C4_UltimoIsNewestTimestamp ==
    [][estadisticas =>
          resp'.ultimo = IF rows = <<>> THEN None
                         ELSE RowOf(rows, MaxRowid(rows)).timestamp]_vars

\* Every id a command can be given: those of the rows, and one beyond.
AllIds == 1..(MaxRows + 1)

\* What `update id a` is to do to the row r: every column with an option
\* holds the option's value, every other column is as it was.
Patched(r, new, a) ==
    /\ new.latitud = (IF a.lat # None THEN a.lat ELSE r.latitud)
    /\ new.longitud = (IF a.lng # None THEN a.lng ELSE r.longitud)
    /\ new.tipo_reporte = (IF a.tipo # None THEN a.tipo ELSE r.tipo_reporte)
    /\ new.descripcion = (IF a.desc # None THEN a.desc ELSE r.descripcion)
    /\ new.id = r.id
    /\ new.timestamp = r.timestamp
    /\ new.foto_base64 = r.foto_base64
    /\ new.created_at = r.created_at

\* From the table old to the table new, the rows other than id's are as they
\* were, and no row is added or lost.
OthersKept(old, new, id) ==
    /\ Len(new) = Len(old)
    /\ \A i \in 1..Len(old) : old[i].id # id => new[i] = old[i]

\* From the table old to the table new, `update id a` has set exactly the
\* columns whose options were given, on row id alone.
UpdateEffect(old, new, id, a) ==
    /\ OthersKept(old, new, id)
    /\ \A i \in 1..Len(old) : old[i].id = id => Patched(old[i], new[i], a)

\* C5, as claimed: `update` on an existing id sets exactly the columns whose
\* options were given, on that row alone.
C5_UpdateSetsSuppliedColumns ==
    [][\A id \in EditIds, a \in UpdateArgs :
          (id \in Ids(rows) /\ resp'.op = "update" /\ cmd_update(id, a))
              => UpdateEffect(rows, rows', id, a)]_vars

\* C5, amended: `update` on an existing id, whatever its options, sets
\* exactly the columns whose options were given, on that row alone, unless
\* --lat or --lng is nan: then it ends in the storage engine's NOT NULL error
\* and the table is as it was.
C5_UpdateFrame ==
    \A id \in Ids(rows), a \in UpdateArgs :
        \A o \in {UpdateOutcome(id, a)} :
            IF a.lat = NaN \/ a.lng = NaN
            THEN o.rows = rows /\ o.resp.raised
            ELSE UpdateEffect(rows, o.rows, id, a)

\* `update 1 --desc revisado` has run on the first of two rows, whose other
\* columns are as inserted.
C5_Witness ==
    /\ Len(rows) = 2
    /\ resp.op = "update" /\ resp.id = 1 /\ resp.out = "Actualizado"
    /\ rows[1].id = 1
    /\ rows[1].descripcion = "revisado"
    /\ rows[1].latitud = "10.0" /\ rows[1].longitud = "-74.0"
    /\ rows[1].tipo_reporte = "general"

\* C6: `update` and `set-photo` run on a store that holds no row with the id
\* leave the table as it is, raise nothing, exit with code 0 and, when they
\* reach the UPDATE statement, print the message a successful update prints.
C6_MissingIdIsNoOp ==
    dbExists =>
        \A id \in AllIds \ Ids(rows) :
            /\ \A a \in UpdateArgs :
                  \A o \in {UpdateOutcome(id, a)} :
                      /\ o.rows = rows
                      /\ ~o.resp.raised /\ o.resp.code = 0
                      /\ (\E c \in UpdateColumns : Option(a, c) # None)
                            => o.resp.out = "Actualizado"
            /\ \A image \in Images :
                  \A o \in {SetPhotoOutcome(id, image)} :
                      /\ o.rows = rows
                      /\ ~o.resp.raised /\ o.resp.code = 0
                      /\ image # NoImage => o.resp.out = "Foto actualizada"

\* `update` has reported success for an id no row of a non-empty table has.
C6_Witness ==
    /\ dbExists /\ rows # <<>>
    /\ resp.op = "update" /\ resp.out = "Actualizado" /\ resp.code = 0
    /\ resp.id \notin Ids(rows)

AdminOps == {"list", "show", "update", "set-photo", "backup"}

\* C7: a command run while the store file does not exist prints the
\* missing-store message and exits with code 1, raises nothing and creates
\* no file.  (The store file never disappears, so a command's result seen
\* while it does not exist is that of a run without it.)
C7_MissingStoreExitsOne ==
    (~dbExists /\ resp.op \in AdminOps) =>
        /\ resp.out = "No se encuentra reportes.db"
        /\ resp.code = 1
        /\ ~resp.raised
        /\ bakExists = FALSE

\* C8: no operation returns with its store connection still open.
C8_ConnectionsClosed == resp.conn # "open"

\* The request reporte has added the last row of the table new and was
\* answered res: the row holds the client's timestamp, or the handler's clock
\* when the client's is one of `absent`, and a 200 response returns what the
\* row holds.
TimestampStored(reporte, new, res, absent) ==
    LET stored == new[Len(new)].timestamp
    IN  /\ stored = (IF reporte.timestamp \in absent THEN NowIso(clock)
                     ELSE reporte.timestamp)
        /\ res.code = 200 => res.body[1].timestamp = stored

\* C9, as claimed: every timestamp string the client supplies, the empty
\* string included, is the one stored and returned; only an absent one is
\* replaced by the handler's clock.
C9_SuppliedTimestampKept ==
    [][\A reporte \in ReporteCreate :
          (resp'.op = "crear_reporte" /\ rows' # rows /\ crear_reporte(reporte))
              => TimestampStored(reporte, rows', resp', {None})]_vars

\* C9, amended: an absent or empty timestamp is replaced by the handler's
\* clock; every non-empty string the client supplies is the one stored and
\* returned.
C9_NonEmptyTimestampKept ==
    dbExists =>
        \A reporte \in ReporteCreate :
            \A o \in {CrearOutcome(reporte)} :
                o.rows # rows => TimestampStored(reporte, o.rows, o.resp, {None, ""})

\* A stamped row is followed by one that keeps the client's timestamp, which
\* the response returns.
C9_Witness ==
    /\ Len(rows) = 2
    /\ rows[1].timestamp = NowIso(rows[1].created_at)
    /\ rows[2].timestamp = "t1"
    /\ resp.op = "crear_reporte" /\ resp.code = 200
    /\ resp.body[1].timestamp = "t1"

\* C10: POST /reportes/ adds a row if and only if it answers 200, so a
\* request answered 500 leaves the table as it was.
C10_RowIffSuccess ==
    [][\A reporte \in ReporteCreate :
          (resp'.op = "crear_reporte" /\ crear_reporte(reporte))
              => (rows' # rows <=> resp'.code = 200)]_vars

====
